---- MODULE Spec2Model ----
(***************************************************************************)
(* Model of internal/provider/space_resource.go: the lifecycle handlers    *)
(* of the Hugging Face space resource (Create, Read, Update, Delete,       *)
(* ImportState) run against a remote API that answers every request with   *)
(* success, a non-success status or a transport error.                     *)
(*                                                                         *)
(* Strings that the code splits on "/" are sequences of segments:          *)
(* "ns/a" is <<"ns", "a">> and the empty string is <<"">>.                 *)
(* A types.Map is [null, elems]; a types.Bool is "true", "false" or        *)
(* "null"; a null types.String reads as "" and a null types.Int64 as 0,    *)
(* which is all the handlers ever look at (ValueString, ValueInt64).       *)
(***************************************************************************)
EXTENDS Integers, Sequences, FiniteSets, TLC

VARIABLES
    tracked,   \* the host holds a state record for the resource
    stored,    \* that record (SpaceResourceModel), NullModel when untracked
    remote,    \* the remote API: identifier -> space
    op,        \* the lifecycle call running or last run
    pc,        \* position inside that call
    data,      \* the handler's `data`: the plan (or the state for Read/Delete)
    state,     \* Update's working copy `state`
    prior,     \* the stored record when the call began
    log,       \* remote calls of the call, in order, with their outcome
    todo,      \* keys the running range loop has not visited yet
    acc,       \* stateSecretsMap / stateVariablesMap being filled
    result,    \* "none", "running", "ok" or "error" (diagnostics)
    nops,      \* Create and Update calls begun
    clean      \* no lifecycle call before the current one ended with an
               \* error and the record was never imported

vars == <<tracked, stored, remote, op, pc, data, state, prior, log, todo, acc,
          result, nops, clean>>

-----------------------------------------------------------------------------
(* Bounds *)

MaxOps == 2      \* Create and Update calls of one behaviour

-----------------------------------------------------------------------------
(* Values *)

Namespace == "ns"
Names == {"a", "b"}
Ids == {<<Namespace, n>> : n \in Names}
EmptyString == <<"">>

EmptyElems == [k \in {} |-> ""]
NullMap == [null |-> TRUE, elems |-> EmptyElems]
MapOf(f) == [null |-> FALSE, elems |-> f]

ValueBool(b) == b = "true"
BoolValue(b) == IF b THEN "true" ELSE "false"

NullModel ==
    [id |-> EmptyString, name |-> "", private |-> "null", sdk |-> "",
     template |-> "", secrets |-> NullMap, variables |-> NullMap,
     hardware |-> "", storage |-> "", sleepTime |-> 0]

Cfg(n, p, hw, st, sl, sec, var) ==
    [name |-> n, private |-> p, sdk |-> "gradio", template |-> "",
     secrets |-> sec, variables |-> var,
     hardware |-> hw, storage |-> st, sleepTime |-> sl]

Base == Cfg("a", "false", "cpu-basic", "small", 0, NullMap, NullMap)

\* The desired configurations the host may hand to Create and Update: the
\* base, the base with one scalar changed, with everything but the name
\* changed (SDK and template included), and with the sub-collections managed
\* (with and without a changed scalar).
Configs ==
    { Base,
      [Base EXCEPT !.name = "b"],
      [Base EXCEPT !.private = "true"],
      [Base EXCEPT !.hardware = "t4-small"],
      [Base EXCEPT !.storage = "large"],
      [Base EXCEPT !.sleepTime = 3600],
      [Cfg("a", "true", "t4-small", "large", 3600,
           MapOf("a" :> "1"), MapOf("x" :> "1"))
          EXCEPT !.sdk = "docker", !.template = "blank"],
      [Base EXCEPT !.secrets = MapOf("a" :> "1" @@ "b" :> "2"),
                   !.variables = MapOf("x" :> "1")],
      [Base EXCEPT !.secrets = MapOf("a" :> "1" @@ "b" :> "2"),
                   !.variables = MapOf("x" :> "1"),
                   !.hardware = "t4-small"],
      [Base EXCEPT !.secrets = MapOf("b" :> "2" @@ "c" :> "3"),
                   !.variables = MapOf(EmptyElems)] }

Hardwares == {c.hardware : c \in Configs}
DriftKeys == {"z"}

NoSpace ==
    [exists |-> FALSE, private |-> FALSE, sdk |-> "", template |-> "",
     hardware |-> "", storage |-> "", sleepTime |-> 0,
     secrets |-> EmptyElems, variables |-> EmptyElems]

Exists(rem, id) == id \in Ids /\ rem[id].exists

-----------------------------------------------------------------------------
(* The remote API (https://huggingface.co/api), as the handlers use it *)

\* Answers whose body the handler decodes as JSON.
DecodedEps == {"create", "list", "hardware", "storage", "sleeptime"}

\* What one request can come back with.  "status" is a non-200 status,
\* "transport" an error from the client, "undecodable" a 200 whose body is
\* not JSON, "noname" a 200 whose JSON has no string "name".  A request the
\* remote cannot serve (unknown identifier, name taken) never succeeds.
Answers(ep, servable) ==
    IF ~servable THEN {"status", "transport"}
    ELSE {"ok", "status", "transport"}
         \cup (IF ep \in DecodedEps THEN {"undecodable"} ELSE {})
         \cup (IF ep = "create" THEN {"noname"} ELSE {})

\* The remote carried the request out (whatever the handler makes of the body).
Applied(res) == res \in {"ok", "undecodable", "noname"}

\* A remote call as the log keeps it: endpoint, sub-collection, the
\* identifier it is addressed to, its argument, its answer and, for a list
\* that succeeded, the keys of the body.
Call(ep, coll, id, arg, res, keys) ==
    [ep |-> ep, coll |-> coll, id |-> id, arg |-> arg, res |-> res,
     keys |-> keys]

RepoOf(name) == <<Namespace, name>>

RemoteCreate(rem, d) ==
    [rem EXCEPT ![RepoOf(d.name)] =
        [exists |-> TRUE, private |-> ValueBool(d.private), sdk |-> d.sdk,
         template |-> d.template, hardware |-> d.hardware,
         storage |-> d.storage, sleepTime |-> d.sleepTime,
         secrets |-> EmptyElems, variables |-> EmptyElems]]

MovePossible(rem, from, to) ==
    Exists(rem, from) /\ to \in Ids /\ ~Exists(rem, to)

RemoteMove(rem, from, to) == [rem EXCEPT ![to] = rem[from], ![from] = NoSpace]

RemoteSet(rem, id, field, v) == [rem EXCEPT ![id][field] = v]

RemoteAddKey(rem, id, coll, k, v) ==
    [rem EXCEPT ![id][coll] =
        [x \in DOMAIN rem[id][coll] \cup {k} |->
            IF x = k THEN v ELSE rem[id][coll][x]]]

RemoteDeleteKey(rem, id, coll, k) ==
    [rem EXCEPT ![id][coll] =
        [x \in DOMAIN rem[id][coll] \ {k} |-> rem[id][coll][x]]]

\* The body of a list answer: the collection, by key.
RemoteList(rem, id, coll) == rem[id][coll]

RemoteDelete(rem, id) == [rem EXCEPT ![id] = NoSpace]

-----------------------------------------------------------------------------
(* Pieces of the handlers *)

\* Faulty variant: the last segment instead of the first.
SplitLast(id) == id[Len(id)]

Split0(id) == id[1]

\* toRepo of the rename: the first segment of the state's ID, "/", the
\* planned name.
ToRepo(st, d) == <<Split0(st.id), d.name>>

\* The identifier every URL after the rename is formatted with: data.ID.
SpaceURL(d, st) == d.id

\* Faulty variants of the conditions below (a block never or always
\* entered); the properties must tell them from the handler's own.
NeedsStorageNever(st, d) == FALSE
NeedsSleepTimeAlways(st, d) == TRUE

NeedsRename(st, d) == st.name # d.name
NeedsVisibility(st, d) == st.private # d.private
NeedsHardware(st, d) == st.hardware # d.hardware
NeedsStorage(st, d) == st.storage # d.storage
NeedsSleepTime(st, d) == st.sleepTime # d.sleepTime

\* Faulty variant: the null test of the map left out.
ManagedAlways(m) == TRUE

\* !Map.IsNull() && !Map.IsUnknown(); a plan's map is never unknown here.
Managed(m) == ~m.null

\* The list answer lets the handler go on to the deletes / the adds.
ListDeletes(res) == res = "ok"
\* Faulty variant: a non-success status of the list is surfaced.
ListAbortsOnStatus(res) == res # "ok"

ListAborts(res) == res \in {"transport", "undecodable"}

\* Faulty variant: only err != nil returns, the status is not looked at.
ReturnsOnErrOnly(res) == res = "transport"

\* Faulty variant: the decode error of a 200 answer is dropped.
ReturnsIgnoresBody(res) == res \in {"status", "transport"}

\* Faulty variant: no answer makes the handler return.
ReturnsNever(res) == FALSE

\* Any other answer but "ok" makes the handler add an error and return.
Returns(res) == res # "ok"

\* Faulty variant: the delete loop stops after its first key.
KeysToDeleteOne(existing) ==
    IF DOMAIN existing = {} THEN {} ELSE {CHOOSE k \in DOMAIN existing : TRUE}

\* Faulty variant: the delete loop ranges over nothing.
KeysToDeleteNone(existing) == {}

\* The keys the delete loop ranges over, of the decoded list answer.
KeysToDelete(existing) == DOMAIN existing

\* Faulty variant: the sleep time of the plan is lost.
PlanWithoutSleepTime(d, id) ==
    [id |-> id, name |-> d.name, private |-> d.private, sdk |-> d.sdk,
     template |-> d.template, secrets |-> d.secrets,
     variables |-> d.variables, hardware |-> d.hardware,
     storage |-> d.storage, sleepTime |-> 0]

\* The plan Update sees: the configuration, with the id taken from the
\* prior state (UseStateForUnknown).
Plan(d, id) ==
    [id |-> id, name |-> d.name, private |-> d.private, sdk |-> d.sdk,
     template |-> d.template, secrets |-> d.secrets,
     variables |-> d.variables, hardware |-> d.hardware,
     storage |-> d.storage, sleepTime |-> d.sleepTime]

Idle == pc \in {"idle", "done"}

Goto(p) == pc' = p /\ UNCHANGED <<tracked, stored, result>>

\* Faulty variants of the error return: one that leaves a record behind, one
\* that writes the working copy of Update.
AbortTracks ==
    pc' = "done" /\ result' = "error" /\ tracked' = TRUE /\ stored' = stored
AbortWritesWorkingCopy ==
    pc' = "done" /\ result' = "error" /\ stored' = state /\ UNCHANGED tracked

\* The handler returns after resp.Diagnostics.AddError: resp.State is what
\* the host put there (null in Create, the prior state otherwise).
Abort == pc' = "done" /\ result' = "error" /\ UNCHANGED <<tracked, stored>>

Begin(o) ==
    /\ Idle
    /\ IF o \in {"create", "update"}
       THEN nops < MaxOps /\ nops' = nops + 1
       ELSE nops' = nops
    /\ clean' = (clean /\ result # "error" /\ o # "import")
    /\ op' = o
    /\ prior' = stored

Init ==
    /\ tracked = FALSE
    /\ stored = NullModel
    /\ remote = [i \in Ids |-> NoSpace]
    /\ op = "none"
    /\ pc = "idle"
    /\ data = NullModel
    /\ state = NullModel
    /\ prior = NullModel
    /\ log = << >>
    /\ todo = {}
    /\ acc = EmptyElems
    /\ result = "none"
    /\ nops = 0
    /\ clean = TRUE

-----------------------------------------------------------------------------
(* Create.  An action is the handler's run up to and including its next     *)
(* remote call: loops that have nothing to range over are passed through.   *)

Keys(m) == IF Managed(m) THEN DOMAIN m.elems ELSE {}

\* Faulty variant: the variables loop is never entered.
CreateAfterSkipsVariables(from, d) == "createSet"

\* Where Create stands once the secrets loop (from = "createSecrets") or the
\* variables loop has nothing left to post.
CreateAfter(from, d) ==
    IF from = "createSecrets" /\ Keys(d.variables) # {}
    THEN "createVariables"
    ELSE "createSet"

\* POST /api/repos/create and the extraction of the returned name.
CreateSpace(d) ==
    /\ ~tracked
    /\ Begin("create")
    /\ \E r \in Answers("create", ~Exists(remote, RepoOf(d.name))) :
        /\ log' = <<Call("create", "", EmptyString, <<d.name>>, r, {})>>
        /\ remote' = IF Applied(r) THEN RemoteCreate(remote, d) ELSE remote
        /\ IF Returns(r)
           THEN /\ Abort
                /\ data' = Plan(d, EmptyString)
                /\ todo' = {}
           ELSE /\ data' = Plan(d, RepoOf(d.name))
                /\ IF Keys(d.secrets) # {}
                   THEN Goto("createSecrets") /\ todo' = Keys(d.secrets)
                   ELSE /\ Goto(CreateAfter("createSecrets", d))
                        /\ todo' = Keys(d.variables)
    /\ acc' = EmptyElems
    /\ state' = NullModel

\* One round of a range loop of Create: POST the pair.
CreateAdd(coll, here) ==
    /\ op = "create"
    /\ pc = here
    /\ \E k \in todo :
       \E r \in Answers("add", Exists(remote, data.id)) :
         /\ log' = Append(log, Call("add", coll, data.id,
                                    <<k, data[coll].elems[k]>>, r, {}))
         /\ remote' = IF Applied(r)
                      THEN RemoteAddKey(remote, data.id, coll, k,
                                        data[coll].elems[k])
                      ELSE remote
         /\ IF Returns(r)
            THEN Abort /\ todo' = todo
            ELSE IF todo # {k}
            THEN Goto(here) /\ todo' = todo \ {k}
            ELSE /\ Goto(CreateAfter(here, data))
                 /\ todo' = IF here = "createSecrets" THEN Keys(data.variables)
                            ELSE {}
    /\ UNCHANGED <<op, data, state, prior, acc, nops, clean>>

CreateAddSecret == CreateAdd("secrets", "createSecrets")
CreateAddVariable == CreateAdd("variables", "createVariables")

\* resp.State.Set(ctx, &data)
CreateSet ==
    /\ op = "create"
    /\ pc = "createSet"
    /\ stored' = data
    /\ tracked' = TRUE
    /\ result' = "ok"
    /\ pc' = "done"
    /\ UNCHANGED <<remote, op, data, state, prior, log, todo, acc, nops,
                   clean>>

-----------------------------------------------------------------------------
(* Read, Delete, ImportState *)

\* GET /api/spaces/{id}; the mapping of the answer is commented out, so the
\* state read is the state written.
Read ==
    /\ tracked
    /\ Begin("read")
    /\ data' = stored
    /\ \E r \in Answers("get", Exists(remote, stored.id)) :
        /\ log' = <<Call("get", "", stored.id, << >>, r, {})>>
        /\ IF Returns(r)
           THEN Abort
           ELSE /\ stored' = stored
                /\ tracked' = tracked
                /\ result' = "ok"
                /\ pc' = "done"
    /\ state' = NullModel
    /\ todo' = {}
    /\ acc' = EmptyElems
    /\ UNCHANGED remote

\* DELETE /api/repos/delete with the state's name; the host drops the record
\* when the handler returns without an error.
Delete ==
    /\ tracked
    /\ Begin("delete")
    /\ data' = stored
    /\ \E r \in Answers("repodelete", Exists(remote, RepoOf(stored.name))) :
        /\ log' = <<Call("repodelete", "", <<stored.name>>, << >>, r, {})>>
        /\ remote' = IF Applied(r)
                     THEN RemoteDelete(remote, RepoOf(stored.name))
                     ELSE remote
        /\ IF Returns(r)
           THEN Abort
           ELSE /\ stored' = NullModel
                /\ tracked' = FALSE
                /\ result' = "ok"
                /\ pc' = "done"
    /\ state' = NullModel
    /\ todo' = {}
    /\ acc' = EmptyElems

\* ImportStatePassthroughID: a record with the id and nothing else.
ImportState(id) ==
    /\ ~tracked
    /\ Begin("import")
    /\ stored' = [NullModel EXCEPT !.id = id]
    /\ tracked' = TRUE
    /\ data' = NullModel
    /\ log' = << >>
    /\ result' = "ok"
    /\ pc' = "done"
    /\ state' = NullModel
    /\ todo' = {}
    /\ acc' = EmptyElems
    /\ UNCHANGED remote

-----------------------------------------------------------------------------
(* Update.  As in Create, an action is the handler's run up to and          *)
(* including its next remote call: a block whose condition is false and a   *)
(* loop with nothing to range over are passed through.                      *)

\* Faulty variant: the storage block placed before the hardware block.
NextBlockStorageFirst(p) ==
    CASE p = "rename" -> "visibility"
      [] p = "visibility" -> "secrets"
      [] p = "secrets" -> "variables"
      [] p = "variables" -> "storage"
      [] p = "storage" -> "hardware"
      [] p = "hardware" -> "sleeptime"
      [] p = "sleeptime" -> "set"

\* The order of the blocks of Update.
NextBlock(p) ==
    CASE p = "rename" -> "visibility"
      [] p = "visibility" -> "secrets"
      [] p = "secrets" -> "variables"
      [] p = "variables" -> "hardware"
      [] p = "hardware" -> "storage"
      [] p = "storage" -> "sleeptime"
      [] p = "sleeptime" -> "set"

\* The `if` that guards block p.
Enters(p, st, d) ==
    CASE p = "rename" -> NeedsRename(st, d)
      [] p = "visibility" -> NeedsVisibility(st, d)
      [] p = "secrets" -> Managed(d.secrets)
      [] p = "variables" -> Managed(d.variables)
      [] p = "hardware" -> NeedsHardware(st, d)
      [] p = "storage" -> NeedsStorage(st, d)
      [] p = "sleeptime" -> NeedsSleepTime(st, d)
      [] p = "set" -> TRUE

\* The first block from p on that the handler enters.
RECURSIVE Advance(_, _, _)
Advance(p, st, d) ==
    IF Enters(p, st, d) THEN p ELSE Advance(NextBlock(p), st, d)

\* req.Plan.Get(ctx, &data); req.State.Get(ctx, &state)
UpdateBegin(d) ==
    /\ tracked
    /\ Begin("update")
    /\ pc' = Advance("rename", stored, Plan(d, stored.id))
    /\ result' = "running"
    /\ data' = Plan(d, stored.id)
    /\ state' = stored
    /\ log' = << >>
    /\ todo' = {}
    /\ acc' = EmptyElems
    /\ UNCHANGED <<tracked, stored, remote>>

\* POST /api/repos/move
UpdateRename ==
    /\ op = "update"
    /\ pc = "rename"
    /\ \E r \in Answers("move",
                  MovePossible(remote, state.id, ToRepo(state, data))) :
         /\ log' = Append(log, Call("move", "", state.id,
                                    ToRepo(state, data), r, {}))
         /\ remote' = IF Applied(r)
                      THEN RemoteMove(remote, state.id, ToRepo(state, data))
                      ELSE remote
         /\ IF Returns(r)
            THEN Abort /\ state' = state
            ELSE /\ state' = [state EXCEPT !.id = ToRepo(state, data),
                                           !.name = data.name]
                 /\ Goto(Advance(NextBlock("rename"), state', data))
    /\ UNCHANGED <<op, data, prior, todo, acc, nops, clean>>

\* PUT /api/spaces/{id}/settings; the block assigns nothing to state.
UpdateVisibility ==
    /\ op = "update"
    /\ pc = "visibility"
    /\ \E r \in Answers("settings", Exists(remote, SpaceURL(data, state))) :
         /\ log' = Append(log, Call("settings", "", SpaceURL(data, state),
                                    <<data.private>>, r, {}))
         /\ remote' = IF Applied(r)
                      THEN RemoteSet(remote, SpaceURL(data, state),
                                     "private", ValueBool(data.private))
                      ELSE remote
         /\ IF Returns(r)
            THEN Abort
            ELSE Goto(Advance(NextBlock("visibility"), state, data))
    /\ UNCHANGED <<op, data, state, prior, todo, acc, nops, clean>>

\* The handler reaches the add loop of coll with the pairs `posted` in
\* stateSecretsMap / stateVariablesMap: it goes round the loop if a pair is
\* left, else it assigns the map to state and goes on to the next block.
AddLoop(coll, add, left, posted) ==
    IF left # {}
    THEN /\ Goto(add)
         /\ todo' = left
         /\ acc' = posted
         /\ state' = state
    ELSE /\ state' = [state EXCEPT ![coll] = MapOf(posted)]
         /\ Goto(Advance(NextBlock(coll), state', data))
         /\ todo' = {}
         /\ acc' = EmptyElems

\* GET /api/spaces/{id}/{coll} of a managed sub-collection.
UpdateList(coll, del, add) ==
    /\ op = "update"
    /\ pc = coll
    /\ \E r \in Answers("list", Exists(remote, SpaceURL(data, state))) :
         /\ log' = Append(log, Call("list", coll, SpaceURL(data, state),
                                    << >>, r,
                                    IF r = "ok"
                                    THEN DOMAIN RemoteList(remote,
                                             SpaceURL(data, state), coll)
                                    ELSE {}))
         /\ IF ListAborts(r)
            THEN Abort /\ UNCHANGED <<todo, acc, state>>
            ELSE IF /\ ListDeletes(r)
                    /\ KeysToDelete(RemoteList(remote, SpaceURL(data, state),
                                               coll)) # {}
            THEN /\ Goto(del)
                 /\ todo' = KeysToDelete(RemoteList(remote,
                                             SpaceURL(data, state), coll))
                 /\ UNCHANGED <<acc, state>>
            ELSE AddLoop(coll, add, Keys(data[coll]), EmptyElems)
    /\ UNCHANGED <<remote, op, data, prior, nops, clean>>

\* One round of `for key := range existing...`: DELETE the key.
UpdateDeleteKey(coll, del, add) ==
    /\ op = "update"
    /\ pc = del
    /\ \E k \in todo :
       \E r \in Answers("delete",
                  /\ Exists(remote, SpaceURL(data, state))
                  /\ k \in DOMAIN remote[SpaceURL(data, state)][coll]) :
         /\ log' = Append(log, Call("delete", coll, SpaceURL(data, state),
                                    <<k>>, r, {}))
         /\ remote' = IF Applied(r)
                      THEN RemoteDeleteKey(remote, SpaceURL(data, state),
                                           coll, k)
                      ELSE remote
         /\ IF Returns(r)
            THEN Abort /\ UNCHANGED <<todo, acc, state>>
            ELSE IF todo # {k}
            THEN Goto(del) /\ todo' = todo \ {k} /\ UNCHANGED <<acc, state>>
            ELSE AddLoop(coll, add, Keys(data[coll]), EmptyElems)
    /\ UNCHANGED <<op, data, prior, nops, clean>>

\* One round of `for key, value := range ...Map`: POST the pair.
UpdateAddKey(coll, add) ==
    /\ op = "update"
    /\ pc = add
    /\ \E k \in todo :
       \E r \in Answers("add", Exists(remote, SpaceURL(data, state))) :
         /\ log' = Append(log, Call("add", coll, SpaceURL(data, state),
                                    <<k, data[coll].elems[k]>>, r, {}))
         /\ remote' = IF Applied(r)
                      THEN RemoteAddKey(remote, SpaceURL(data, state), coll,
                                        k, data[coll].elems[k])
                      ELSE remote
         /\ IF Returns(r)
            THEN Abort /\ UNCHANGED <<todo, acc, state>>
            ELSE AddLoop(coll, add, todo \ {k},
                         [x \in DOMAIN acc \cup {k} |->
                            IF x = k THEN data[coll].elems[k] ELSE acc[x]])
    /\ UNCHANGED <<op, data, prior, nops, clean>>

UpdateListSecrets == UpdateList("secrets", "secretsDelete", "secretsAdd")
UpdateDeleteSecret == UpdateDeleteKey("secrets", "secretsDelete", "secretsAdd")
UpdateAddSecret == UpdateAddKey("secrets", "secretsAdd")
UpdateListVariables ==
    UpdateList("variables", "variablesDelete", "variablesAdd")
UpdateDeleteVariable ==
    UpdateDeleteKey("variables", "variablesDelete", "variablesAdd")
UpdateAddVariable == UpdateAddKey("variables", "variablesAdd")

\* POST /api/spaces/{id}/{hardware|storage|sleeptime}; state's field is
\* assigned after the answer decoded.
UpdatePost(ep, field) ==
    /\ op = "update"
    /\ pc = ep
    /\ \E r \in Answers(ep, Exists(remote, SpaceURL(data, state))) :
         /\ log' = Append(log, Call(ep, "", SpaceURL(data, state),
                                    <<data[field]>>, r, {}))
         /\ remote' = IF Applied(r)
                      THEN RemoteSet(remote, SpaceURL(data, state), field,
                                     data[field])
                      ELSE remote
         /\ IF Returns(r)
            THEN Abort /\ state' = state
            ELSE /\ state' = [state EXCEPT ![field] = data[field]]
                 /\ Goto(Advance(NextBlock(ep), state', data))
    /\ UNCHANGED <<op, data, prior, todo, acc, nops, clean>>

UpdateHardware == UpdatePost("hardware", "hardware")
UpdateStorage == UpdatePost("storage", "storage")
UpdateSleepTime == UpdatePost("sleeptime", "sleepTime")

\* Faulty variant: the plan is written instead of the working copy.
UpdateSetStoresPlan ==
    /\ op = "update"
    /\ pc = "set"
    /\ stored' = data
    /\ result' = "ok"
    /\ pc' = "done"
    /\ UNCHANGED <<tracked, remote, op, data, state, prior, log, todo, acc,
                   nops, clean>>

\* resp.State.Set(ctx, &state)
UpdateSet ==
    /\ op = "update"
    /\ pc = "set"
    /\ stored' = state
    /\ result' = "ok"
    /\ pc' = "done"
    /\ UNCHANGED <<tracked, remote, op, data, state, prior, log, todo, acc,
                   nops, clean>>

-----------------------------------------------------------------------------
(* Somebody else changes the tracked space between two lifecycle calls *)

Drift ==
    /\ Idle
    /\ tracked
    /\ \E id \in {stored.id} :
        /\ Exists(remote, id)
        /\ \/ \E h \in Hardwares \ {remote[id].hardware} :
                remote' = RemoteSet(remote, id, "hardware", h)
           \/ \E k \in DriftKeys :
                remote' = IF k \in DOMAIN remote[id].secrets
                          THEN RemoteDeleteKey(remote, id, "secrets", k)
                          ELSE RemoteAddKey(remote, id, "secrets", k, "9")
    /\ op' = "none"
    /\ pc' = "idle"
    /\ result' = "none"
    /\ log' = << >>
    /\ prior' = stored
    /\ data' = NullModel
    /\ state' = NullModel
    /\ todo' = {}
    /\ acc' = EmptyElems
    /\ clean' = (clean /\ result # "error")
    /\ UNCHANGED <<tracked, stored, nops>>

-----------------------------------------------------------------------------

Next ==
    \/ \E d \in Configs : CreateSpace(d)
    \/ CreateAddSecret
    \/ CreateAddVariable
    \/ CreateSet
    \/ Read
    \/ Delete
    \/ \E id \in Ids : ImportState(id)
    \/ \E d \in Configs : UpdateBegin(d)
    \/ UpdateRename
    \/ UpdateVisibility
    \/ UpdateListSecrets
    \/ UpdateDeleteSecret
    \/ UpdateAddSecret
    \/ UpdateListVariables
    \/ UpdateDeleteVariable
    \/ UpdateAddVariable
    \/ UpdateHardware
    \/ UpdateStorage
    \/ UpdateSleepTime
    \/ UpdateSet
    \/ Drift

Spec == Init /\ [][Next]_vars

-----------------------------------------------------------------------------
(* Properties *)

InUpdate == op = "update"
UpdateEnded == op = "update" /\ pc = "done"
Idx == 1..Len(log)
AllCallsOk == \A i \in Idx : log[i].res = "ok"

ScalarFields == {"name", "private", "hardware", "storage", "sleepTime"}
Differing(d, o) == {f \in ScalarFields : d[f] # o[f]}
EndpointOf(f) ==
    CASE f = "name" -> "move"
      [] f = "private" -> "settings"
      [] f = "hardware" -> "hardware"
      [] f = "storage" -> "storage"
      [] f = "sleepTime" -> "sleeptime"

\* The step of the reconciliation order a call belongs to.
RankOf(c) ==
    CASE c.ep = "move" -> 1
      [] c.ep = "settings" -> 2
      [] c.coll = "secrets" -> 3
      [] c.coll = "variables" -> 4
      [] c.ep = "hardware" -> 5
      [] c.ep = "storage" -> 6
      [] c.ep = "sleeptime" -> 7

\* C1: in an Update whose move call succeeded, every later call of the same
\* Update is addressed to the new identifier (the toRepo of the move).
C1_CallsAfterRenameUseNewId ==
    InUpdate =>
        \A i \in Idx :
            (log[i].ep = "move" /\ log[i].res = "ok") =>
                \A j \in Idx : j > i => log[j].id = log[i].arg

\* C2 as stated: an Update whose plan equals the observed state issues no
\* remote call and returns the observed state, whether or not the
\* sub-collections are set.
C2_Original ==
    (InUpdate /\ data = prior) =>
        /\ log = << >>
        /\ pc = "done" => (result = "ok" /\ stored = prior)

\* C2 amended: an Update whose plan equals the observed state and leaves both
\* sub-collections unset issues no remote call and returns the observed state;
\* with a sub-collection set, its calls for that sub-collection (list,
\* delete, add) are the only calls it issues.
C2_NoDriftNoScalarCall ==
    (InUpdate /\ data = prior) =>
        /\ \A i \in Idx :
              /\ log[i].ep \in {"list", "delete", "add"}
              /\ ~data[log[i].coll].null
        /\ (data.secrets.null /\ data.variables.null) =>
              /\ log = << >>
              /\ pc = "done" => (result = "ok" /\ stored = prior)

C2_Witness ==
    /\ UpdateEnded
    /\ data = prior
    /\ data.secrets.null
    /\ data.variables.null
    /\ result = "ok"
    /\ stored = prior

\* C3: after an Update all of whose calls succeeded, every scalar property of
\* the stored state equals the planned value.
C3_ScalarsEqualDesired ==
    (UpdateEnded /\ result = "ok" /\ AllCallsOk) =>
        \A f \in ScalarFields : stored[f] = data[f]

OneScalarDiffers ==
    /\ InUpdate
    /\ Cardinality(Differing(data, prior)) = 1
    /\ data.id = prior.id
    /\ data.sdk = prior.sdk
    /\ data.template = prior.template
    /\ data.secrets = prior.secrets
    /\ data.variables = prior.variables

OnlyThatFieldsCall ==
    /\ Len(log) <= 1
    /\ \A i \in Idx : \A f \in Differing(data, prior) :
          log[i].ep = EndpointOf(f)
    /\ pc = "done" => Len(log) = 1

\* C4 as stated: when the plan and the observed state differ in exactly one
\* scalar field, Update issues exactly one call, to that field's endpoint.
C4_Original == OneScalarDiffers => OnlyThatFieldsCall

\* C4 amended: the same, for a plan that leaves both sub-collections unset.
C4_OneFieldOneCall ==
    (OneScalarDiffers /\ data.secrets.null /\ data.variables.null)
        => OnlyThatFieldsCall

C4_Witness ==
    /\ OneScalarDiffers
    /\ data.secrets.null
    /\ data.variables.null
    /\ Differing(data, prior) = {"storage"}
    /\ pc = "done"
    /\ result = "ok"
    /\ Len(log) = 1
    /\ log[1].ep = "storage"

\* C5: the calls of an Update appear in the order rename, visibility,
\* secrets, variables, hardware, storage, sleep time: no call of an earlier
\* step follows a call of a later step.
C5_FixedOrder ==
    InUpdate =>
        \A i \in Idx : \A j \in Idx :
            i < j => RankOf(log[i]) <= RankOf(log[j])

C5_Witness ==
    /\ UpdateEnded
    /\ result = "ok"
    /\ {RankOf(log[i]) : i \in Idx} = 2..7

Colls == {"secrets", "variables"}
SubCalls(coll, ep) == {i \in Idx : log[i].coll = coll /\ log[i].ep = ep}
ListOk(coll) == \E i \in SubCalls(coll, "list") : log[i].res = "ok"
ListedKeys(coll) == UNION {log[i].keys : i \in SubCalls(coll, "list")}
KeysOf(calls) == {log[i].arg[1] : i \in calls}
OncePerKey(calls) ==
    \A i \in calls : \A j \in calls : i # j => log[i].arg[1] # log[j].arg[1]

\* C6: after a list call that succeeded with key set R, Update deletes every
\* key of R and then adds every pair of the desired map D: one call per key,
\* every delete before any add, the keys of both R and D deleted and added
\* again; when the Update succeeds the stored sub-collection is exactly D.
C6_DeleteAllThenAddAll ==
    InUpdate =>
        \A coll \in Colls :
            ListOk(coll) =>
                LET dels == SubCalls(coll, "delete")
                    adds == SubCalls(coll, "add")
                    R == ListedKeys(coll)
                    D == data[coll].elems
                IN  /\ KeysOf(dels) \subseteq R
                    /\ OncePerKey(dels)
                    /\ KeysOf(adds) \subseteq DOMAIN D
                    /\ OncePerKey(adds)
                    /\ \A i \in adds : log[i].arg[2] = D[log[i].arg[1]]
                    /\ \A i \in dels : \A j \in adds : i < j
                    /\ adds # {} => KeysOf(dels) = R
                    /\ (pc = "done" /\ result = "ok") =>
                          /\ KeysOf(dels) = R
                          /\ KeysOf(adds) = DOMAIN D
                          /\ stored[coll] = MapOf(D)

C6_Witness ==
    /\ UpdateEnded
    /\ result = "ok"
    /\ ListOk("secrets")
    /\ ListedKeys("secrets") = {"a", "b"}
    /\ DOMAIN data.secrets.elems = {"b", "c"}
    /\ KeysOf(SubCalls("secrets", "delete")) = {"a", "b"}
    /\ KeysOf(SubCalls("secrets", "add")) = {"b", "c"}

\* C7: when an Update with a managed sub-collection ends without error, the
\* remote collection of the resource holds exactly the desired map.
C7_RemoteEqualsDesired ==
    (UpdateEnded /\ result = "ok") =>
        \A coll \in Colls :
            ~data[coll].null =>
                /\ Exists(remote, stored.id)
                /\ remote[stored.id][coll] = data[coll].elems

\* C8: an Update whose desired secrets (variables) map is unset issues no
\* call for that sub-collection and leaves the observed sub-collection as it
\* was.
C8_UnsetIsUntouched ==
    InUpdate =>
        \A coll \in Colls :
            data[coll].null =>
                /\ \A i \in Idx : log[i].coll # coll
                /\ state[coll] = prior[coll]
                /\ stored[coll] = prior[coll]

C8_Witness ==
    /\ UpdateEnded
    /\ result = "ok"
    /\ data.secrets.null
    /\ ~prior.secrets.null
    /\ DOMAIN prior.secrets.elems # {}
    /\ Len(log) > 0

\* A call that ended in a transport error or a non-success status, the
\* non-success status of a list call excepted.
FailedCall(c) ==
    /\ c.res \in {"status", "transport"}
    /\ ~(c.ep = "list" /\ c.res = "status")

\* C9: in every lifecycle call the first failed call is the last call: the
\* call ends there with an error, nothing is retried or reconciled after it.
C9_FailFast ==
    \A i \in Idx :
        FailedCall(log[i]) =>
            /\ i = Len(log)
            /\ pc = "done"
            /\ result = "error"

C9_Witness ==
    /\ UpdateEnded
    /\ result = "error"
    /\ Len(log) >= 2
    /\ log[Len(log)].ep = "hardware"
    /\ FailedCall(log[Len(log)])
    /\ data.storage # state.storage

\* C10: when the rename of an Update succeeded and its hardware call failed,
\* the Update ends with an error and the state it leaves reflects the rename
\* (new identifier and name) but not the storage and sleep-time changes.
C10_PartialStateHasRename ==
    \A i \in Idx :
        ( /\ UpdateEnded
          /\ log[i].ep = "move"
          /\ log[i].res = "ok"
          /\ log[Len(log)].ep = "hardware"
          /\ log[Len(log)].res # "ok" ) =>
            /\ result = "error"
            /\ stored.id = log[i].arg
            /\ stored.name = data.name
            /\ stored.storage = prior.storage
            /\ stored.sleepTime = prior.sleepTime

CreateEnded == op = "create" /\ pc = "done"

\* C11: the record is absent or present, nothing in between: while a Create
\* runs and when it ends with an error (at the create call, its decoding, a
\* missing name, or a later add), no record is stored and the resource is
\* not tracked, whatever the remote did; it is tracked exactly when the
\* Create ended without an error.
C11_FailedCreateStoresNothing ==
    /\ ~tracked => stored = NullModel
    /\ op = "create" =>
          /\ tracked <=> (pc = "done" /\ result = "ok")
          /\ (pc = "done" /\ result = "ok") => stored # NullModel
          /\ \A i \in Idx : log[i].res # "ok" =>
                (pc = "done" /\ result = "error" /\ ~tracked)

C11_Witness ==
    /\ CreateEnded
    /\ result = "error"
    /\ ~tracked
    /\ stored = NullModel
    /\ Len(log) >= 2
    /\ log[1].res = "ok"
    /\ log[Len(log)].ep = "add"
    /\ log[Len(log)].res = "status"
    /\ Exists(remote, data.id)

\* C12: a Create all of whose calls succeeded stores a record whose
\* identifier is the name the create call returned (the identifier under
\* which the space now exists) and whose name, visibility, hardware, storage,
\* sleep time, secrets and variables are the desired ones: the name sent,
\* the settings the space was created with, the pairs that were added.
C12_CreateStoresDesired ==
    (CreateEnded /\ result = "ok") =>
        /\ AllCallsOk
        /\ log[1].ep = "create"
        /\ stored.id = RepoOf(log[1].arg[1])
        /\ stored.name = log[1].arg[1]
        /\ Exists(remote, stored.id)
        /\ BoolValue(remote[stored.id].private) = stored.private
        /\ remote[stored.id].hardware = stored.hardware
        /\ remote[stored.id].storage = stored.storage
        /\ remote[stored.id].sleepTime = stored.sleepTime
        /\ \A coll \in Colls :
              /\ stored[coll].null => SubCalls(coll, "add") = {}
              /\ ~stored[coll].null =>
                    remote[stored.id][coll] = stored[coll].elems
        /\ \E d \in Configs : stored = [id |-> stored.id] @@ d

C12_Witness ==
    /\ CreateEnded
    /\ result = "ok"
    /\ stored.sleepTime = 3600
    /\ stored.private = "true"
    /\ DOMAIN stored.secrets.elems = {"a"}
    /\ DOMAIN stored.variables.elems = {"x"}
    /\ Len(log) = 3

ReadEnded == op = "read" /\ pc = "done"

\* C13: after a Read that succeeded, the stored visibility, hardware and
\* storage (and sleep time and sub-collections) are the ones the remote
\* reports for the identifier, also when the remote was changed since the
\* record was written; a Read whose call did not succeed ends with an error
\* and leaves the record as it was.
C13_ReadRefreshes ==
    ReadEnded =>
        /\ result = "ok" =>
              /\ Exists(remote, stored.id)
              /\ stored.private = BoolValue(remote[stored.id].private)
              /\ stored.hardware = remote[stored.id].hardware
              /\ stored.storage = remote[stored.id].storage
              /\ stored.sleepTime = remote[stored.id].sleepTime
        /\ log[1].res # "ok" => (result = "error" /\ stored = prior)

DeleteEnded == op = "delete" /\ pc = "done"

\* C14: after a Delete that succeeded the resource no longer exists remotely
\* under the identifier the record held, and the record is gone; a Delete
\* whose call got a transport error or a non-success status ends with an
\* error and keeps the record as it was.
C14_DeleteRemovesRemote ==
    DeleteEnded =>
        /\ result = "ok" =>
              /\ log[1].res = "ok"
              /\ ~Exists(remote, prior.id)
              /\ ~tracked
        /\ log[1].res # "ok" =>
              /\ result = "error"
              /\ tracked
              /\ stored = prior

\* A Delete that succeeded on a record only a Create followed by a renaming
\* Update can have written.
C14_Witness ==
    /\ DeleteEnded
    /\ result = "ok"
    /\ prior.name = "b"
    /\ prior.id = RepoOf("b")
    /\ ~prior.secrets.null
    /\ ~Exists(remote, prior.id)
    /\ ~tracked

\* C15: a list call of a managed sub-collection that returns a non-success
\* status is not surfaced: the Update issues no delete call for that
\* sub-collection and goes on with the add calls for the desired map.
\* Delete calls are issued only after a list that succeeded.  A transport
\* error on the list call ends the Update with an error.
C15_ListStatusSkipsDeletes ==
    InUpdate =>
        \A coll \in Colls : \A i \in SubCalls(coll, "list") :
            LET dels == SubCalls(coll, "delete")
                adds == SubCalls(coll, "add")
                D == data[coll].elems
            IN  /\ SubCalls(coll, "list") = {i}
                /\ \A j \in dels \cup adds : i < j
                /\ dels # {} => log[i].res = "ok"
                /\ log[i].res = "transport" =>
                      (i = Len(log) /\ pc = "done" /\ result = "error")
                /\ log[i].res = "status" =>
                      /\ dels = {}
                      /\ i = Len(log) => result # "error"
                      /\ (i < Len(log) /\ D # EmptyElems) =>
                            (log[i + 1].ep = "add" /\ log[i + 1].coll = coll)
                      /\ (i = Len(log) /\ D # EmptyElems) =>
                            pc \in {"secretsAdd", "variablesAdd"}
                      /\ (\A j \in Idx : j > i => log[j].res = "ok") =>
                            (pc \notin {"secretsAdd", "variablesAdd"}
                                => KeysOf(adds) = DOMAIN D)
                      /\ (pc = "done" /\ result = "ok") =>
                            stored[coll] = MapOf(D)

\* The list of the secrets answered a non-success status while the space
\* held the keys a and b; the Update went on to add b and c and succeeded,
\* and a is still there.
C15_Witness ==
    /\ UpdateEnded
    /\ result = "ok"
    /\ \E i \in SubCalls("secrets", "list") : log[i].res = "status"
    /\ SubCalls("secrets", "delete") = {}
    /\ KeysOf(SubCalls("secrets", "add")) = {"b", "c"}
    /\ Exists(remote, stored.id)
    /\ DOMAIN remote[stored.id].secrets = {"a", "b", "c"}

\* A Create or an Update that ended without an error, no lifecycle call
\* before it having failed.
CleanRun == clean /\ op \in {"create", "update"} /\ pc = "done" /\ result = "ok"

\* C16: after any sequence of Create and Update calls that all succeeded,
\* the stored identifier is {namespace}/{stored name}, with the namespace the
\* resource was created in, and the resource exists remotely under it; a
\* rename moves the stored identifier to that namespace and the desired name.
C16_StoredIdIsNamespaceAndName ==
    /\ CleanRun =>
          /\ stored.id = <<Namespace, stored.name>>
          /\ Exists(remote, stored.id)
    /\ (clean /\ InUpdate) =>
          \A i \in SubCalls("", "move") :
              /\ log[i].id = prior.id
              /\ log[i].arg = <<Namespace, data.name>>

C16_Witness ==
    /\ CleanRun
    /\ op = "update"
    /\ \E i \in SubCalls("", "move") : log[i].res = "ok"
    /\ prior.id = <<Namespace, "a">>
    /\ stored.id = <<Namespace, "b">>
    /\ stored.name = "b"
    /\ Exists(remote, stored.id)
    /\ ~Exists(remote, prior.id)

\* C17: Create issues the create call first and, only after it succeeded
\* and returned an identifier, one add call per desired secret and then one
\* add call per desired variable, each addressed to the returned identifier;
\* it issues no list or delete call and no add call for an unset
\* sub-collection.
C17_CreateThenAdds ==
    op = "create" =>
        /\ Len(log) >= 1
        /\ log[1].ep = "create"
        /\ Len(log) >= 2 => log[1].res = "ok"
        /\ \A i \in Idx \ {1} :
              /\ log[i].ep = "add"
              /\ log[i].coll \in Colls
              /\ log[i].id = RepoOf(log[1].arg[1])
              /\ ~data[log[i].coll].null
              /\ log[i].arg[1] \in DOMAIN data[log[i].coll].elems
              /\ log[i].arg[2] = data[log[i].coll].elems[log[i].arg[1]]
        /\ \A coll \in Colls : OncePerKey(SubCalls(coll, "add"))
        /\ \A i \in SubCalls("secrets", "add") :
              \A j \in SubCalls("variables", "add") : i < j
        /\ SubCalls("variables", "add") # {} =>
              KeysOf(SubCalls("secrets", "add")) =
                  IF data.secrets.null THEN {} ELSE DOMAIN data.secrets.elems
        /\ (pc = "done" /\ result = "ok") =>
              \A coll \in Colls :
                  KeysOf(SubCalls(coll, "add")) =
                      IF data[coll].null THEN {} ELSE DOMAIN data[coll].elems

C17_Witness ==
    /\ CreateEnded
    /\ result = "ok"
    /\ Len(log) = 4
    /\ KeysOf(SubCalls("secrets", "add")) = {"a", "b"}
    /\ KeysOf(SubCalls("variables", "add")) = {"x"}
    /\ log[4].coll = "variables"
    /\ log[4].id = RepoOf("a")

PostEps == {"hardware", "storage", "sleeptime"}
FieldOf(ep) == IF ep = "sleeptime" THEN "sleepTime" ELSE ep

\* C18: when the hardware, storage or sleep-time call of an Update answers
\* with a success status and a body that cannot be decoded, the Update ends
\* there with an error: it is the last call, no later property is
\* reconciled, the property's observed value is not overwritten, and the
\* remote holds the new value.
C18_UndecodableAborts ==
    InUpdate =>
        \A i \in Idx :
            (log[i].ep \in PostEps /\ log[i].res = "undecodable") =>
                /\ i = Len(log)
                /\ pc = "done"
                /\ result = "error"
                /\ state[FieldOf(log[i].ep)] = prior[FieldOf(log[i].ep)]
                /\ stored = prior
                /\ Exists(remote, log[i].id)
                /\ remote[log[i].id][FieldOf(log[i].ep)] =
                      data[FieldOf(log[i].ep)]
                /\ data[FieldOf(log[i].ep)] # prior[FieldOf(log[i].ep)]

C18_Witness ==
    /\ UpdateEnded
    /\ result = "error"
    /\ Len(log) >= 1
    /\ log[Len(log)].ep = "hardware"
    /\ log[Len(log)].res = "undecodable"
    /\ remote[log[Len(log)].id].hardware = "t4-small"
    /\ stored.hardware = "cpu-basic"
    /\ data.storage # state.storage
    /\ remote[log[Len(log)].id].storage = state.storage

\* C19: whenever an Update ends with an error, the stored record is exactly
\* the record from before the call, also when an earlier step of the pass
\* (the rename) already changed the remote resource; nothing is written
\* while the pass runs either.
C19_FailedUpdateKeepsRecord ==
    InUpdate =>
        /\ tracked
        /\ (pc # "done" \/ result = "error") => stored = prior
        /\ (\E i \in Idx : FailedCall(log[i])) =>
              (pc = "done" /\ result = "error" /\ stored = prior)

\* The rename went through, a later call failed: the record still names
\* the identifier the resource has left.
C19_Witness ==
    /\ UpdateEnded
    /\ result = "error"
    /\ \E i \in SubCalls("", "move") : log[i].res = "ok"
    /\ stored = prior
    /\ state.id # stored.id
    /\ Exists(remote, state.id)
    /\ ~Exists(remote, stored.id)

\* The Update ended with an error at an add call of the sub-collection.
AbortedInAdds(coll) ==
    /\ UpdateEnded
    /\ result = "error"
    /\ Len(log) >= 1
    /\ log[Len(log)].ep = "add"
    /\ log[Len(log)].coll = coll

\* C20: when an Update ends with an error in the add phase of a managed
\* sub-collection whose list succeeded, every key the list reported has been
\* deleted, the remote collection is a part of the desired map, and the
\* stored sub-collection is still the prior one.
C20_AbortInAddsLeavesSubset ==
    \A coll \in Colls :
        (AbortedInAdds(coll) /\ ListOk(coll)) =>
            LET id == log[Len(log)].id
                D == data[coll].elems
                dels == SubCalls(coll, "delete")
            IN  /\ KeysOf(dels) = ListedKeys(coll)
                /\ \A i \in dels : log[i].res = "ok"
                /\ Exists(remote, id)
                /\ DOMAIN remote[id][coll] \subseteq DOMAIN D
                /\ \A k \in DOMAIN remote[id][coll] : remote[id][coll][k] = D[k]
                /\ DOMAIN remote[id][coll] =
                      {log[i].arg[1] : i \in {j \in SubCalls(coll, "add") :
                                                  log[j].res = "ok"}}
                /\ stored[coll] = prior[coll]

\* The key b, in the prior and in the desired map, is gone remotely after
\* the pass failed at an add.
C20_Witness ==
    /\ AbortedInAdds("secrets")
    /\ ListOk("secrets")
    /\ ListedKeys("secrets") = {"a", "b"}
    /\ "b" \in DOMAIN prior.secrets.elems
    /\ "b" \in DOMAIN data.secrets.elems
    /\ "b" \notin DOMAIN remote[log[Len(log)].id].secrets
    /\ stored.secrets = prior.secrets

\* The trailing name segment of an identifier.
NameSegment(id) == id[Len(id)]

\* C21: an Update issues the move call only when the desired name differs
\* from the trailing name segment of the stored identifier; after an import
\* of an identifier and a Read, an Update whose desired name is that segment
\* issues no move call.
C21_MoveOnlyWhenNameDiffers ==
    InUpdate =>
        \A i \in SubCalls("", "move") : data.name # NameSegment(prior.id)

UpdateEps ==
    {"move", "settings", "list", "delete", "add", "hardware", "storage",
     "sleeptime"}

\* C22: an Update issues no call for the SDK or the template (every call
\* goes to one of the rename, settings, sub-collection, hardware, storage
\* and sleep-time endpoints and carries that property's value only), and
\* the working copy and the stored record keep the prior SDK and template,
\* whatever the desired ones are.
C22_SdkTemplateUntouched ==
    InUpdate =>
        /\ \A i \in Idx :
              /\ log[i].ep \in UpdateEps
              /\ log[i].ep = "settings" => log[i].arg = <<data.private>>
              /\ log[i].ep \in PostEps =>
                    log[i].arg = <<data[FieldOf(log[i].ep)]>>
        /\ state.sdk = prior.sdk
        /\ state.template = prior.template
        /\ stored.sdk = prior.sdk
        /\ stored.template = prior.template

C22_Witness ==
    /\ UpdateEnded
    /\ result = "ok"
    /\ Len(log) >= 1
    /\ prior.sdk = "gradio"
    /\ data.sdk = "docker"
    /\ data.template # prior.template
    /\ stored.sdk = "gradio"
    /\ stored.template = prior.template

====
